---- MODULE Spec2Model ----
(***************************************************************************)
(* A model of the ai-coder command line tool: the streaming loop of        *)
(* main.rs, the fenced-block scanner and approval/execution loop of        *)
(* main.rs, and the extract_commands / extract_and_execute_commands pair   *)
(* of agent.rs.                                                            *)
(*                                                                         *)
(* Text is a sequence of one-character strings.  The bytes of the HTTP     *)
(* body are a sequence of JSON tokens ("{", a field, "}", "\n"); a chunk   *)
(* is any non-empty run of consecutive tokens.                             *)
(***************************************************************************)
EXTENDS Integers, Sequences, FiniteSets, TLC

\* ------------------------------------------------------------------ bounds

\* Longest response text, in lines, handed to extract_commands alone.
MaxLines == 4

\* Longest response text, in lines, handed to extract_and_execute_commands.
MaxExecLines == 4

\* Most JSON frame lines in one HTTP response body.
MaxFrames == 2

\* ------------------------------------------------------------ text helpers

S(str) == <<str>>

\* The backquote character U+0060 (written "~": the TLA+ lexer refuses a
\* backquote inside a string).
BT == "~"

\* char::is_whitespace on the characters the model uses.
IsWhitespace(c) == c \in {" ", "\t", "\n", "\r"}

RECURSIVE TrimStart(_)
TrimStart(s) ==
    IF s = <<>> THEN <<>>
    ELSE IF IsWhitespace(Head(s)) THEN TrimStart(Tail(s)) ELSE s

RECURSIVE TrimEnd(_)
TrimEnd(s) ==
    IF s = <<>> THEN <<>>
    ELSE IF IsWhitespace(s[Len(s)]) THEN TrimEnd(SubSeq(s, 1, Len(s) - 1)) ELSE s

\* str::trim
Trim(s) == TrimEnd(TrimStart(s))

\* str::starts_with
StartsWith(s, p) == Len(s) >= Len(p) /\ SubSeq(s, 1, Len(p)) = p

\* str::contains
Contains(s, p) ==
    \E i \in 1..(Len(s) - Len(p) + 1) : SubSeq(s, i, i + Len(p) - 1) = p

RECURSIVE TakeToken(_)
TakeToken(s) ==
    IF s = <<>> \/ IsWhitespace(Head(s)) THEN <<>>
    ELSE <<Head(s)>> \o TakeToken(Tail(s))

\* language.split_whitespace().next().unwrap_or("")
FirstToken(s) == TakeToken(TrimStart(s))

\* u8::to_ascii_lowercase on the letters the model uses.
LowerChar(c) ==
    CASE c = "Y" -> "y"
      [] c = "N" -> "n"
      [] c = "B" -> "b"
      [] c = "E" -> "e"
      [] c = "S" -> "s"
      [] OTHER -> c

\* str::eq_ignore_ascii_case
EqIgnoreAsciiCase(a, b) ==
    /\ Len(a) = Len(b)
    /\ \A i \in 1..Len(a) : LowerChar(a[i]) = LowerChar(b[i])

\* One step of str::lines on a non-empty text: the first line, and the rest.
\* A line ends at "\n"; a "\r" right before that "\n" belongs to the line
\* ending; a last line with no "\n" is returned as it is.
RECURSIVE UpToNewline(_)
UpToNewline(s) ==
    IF s = <<>> \/ Head(s) = "\n" THEN <<>>
    ELSE <<Head(s)>> \o UpToNewline(Tail(s))

StripCr(l) ==
    IF l # <<>> /\ l[Len(l)] = "\r" THEN SubSeq(l, 1, Len(l) - 1) ELSE l

\* str::lines, collected.
RECURSIVE Lines(_)
Lines(s) ==
    IF s = <<>> THEN <<>>
    ELSE LET raw == UpToNewline(s)
             ended == Len(raw) < Len(s)
             line == IF ended THEN StripCr(raw) ELSE raw
             rest == IF ended THEN SubSeq(s, Len(raw) + 2, Len(s)) ELSE <<>>
         IN  <<line>> \o Lines(rest)

\* ----------------------------------------------------- agent.rs: scanner

FenceMark == <<BT, BT, BT>>
TagBash == <<"b", "a", "s", "h">>
TagSh == <<"s", "h">>

\* IsFence, without the trim.
IsFenceUntrimmed(line) == StartsWith(line, FenceMark)

\* line.trim().starts_with of three backquotes
IsFence(line) == StartsWith(Trim(line), FenceMark)

\* line.trim().strip_prefix(three backquotes).unwrap_or("")
FenceTag(line) ==
    LET t == Trim(line)
    IN  IF StartsWith(t, FenceMark) THEN SubSeq(t, 4, Len(t)) ELSE <<>>

\* Eligible, as a substring test on the whole tag.
EligibleLoose(language) ==
    language = <<>> \/ Contains(language, TagBash) \/ Contains(language, TagSh)

\* lang_token.is_empty() || lang_token == "bash" || lang_token == "sh"
Eligible(language) ==
    LET lang_token == FirstToken(language)
    IN  lang_token = <<>> \/ lang_token = TagBash \/ lang_token = TagSh

\* The locals of extract_commands before the first line.
ScanInit ==
    [commands |-> <<>>, in_code_block |-> FALSE, code_block |-> <<>>,
     language |-> <<>>]

\* ScanLine, pushing the trimmed line.
ScanLineTrimmed(st, line) ==
    IF IsFence(line)
    THEN IF st.in_code_block
         THEN [commands |-> IF Eligible(st.language)
                            THEN Append(st.commands, st.code_block)
                            ELSE st.commands,
               in_code_block |-> FALSE, code_block |-> <<>>, language |-> <<>>]
         ELSE [st EXCEPT !.in_code_block = TRUE, !.language = FenceTag(line)]
    ELSE IF st.in_code_block
         THEN [st EXCEPT !.code_block = st.code_block \o Trim(line) \o S("\n")]
         ELSE st

\* The body of the for loop of extract_commands, for one line.
ScanLine(st, line) ==
    IF IsFence(line)
    THEN IF st.in_code_block
         THEN [commands |-> IF Eligible(st.language)
                            THEN Append(st.commands, st.code_block)
                            ELSE st.commands,
               in_code_block |-> FALSE, code_block |-> <<>>, language |-> <<>>]
         ELSE [st EXCEPT !.in_code_block = TRUE, !.language = FenceTag(line)]
    ELSE IF st.in_code_block
         THEN [st EXCEPT !.code_block = st.code_block \o line \o S("\n")]
         ELSE st

RECURSIVE ScanAll(_, _)
ScanAll(st, ls) ==
    IF ls = <<>> THEN st ELSE ScanAll(ScanLine(st, Head(ls)), Tail(ls))

\* The block still open when the lines run out.
ScanFinish(st) ==
    IF st.in_code_block /\ Eligible(st.language)
    THEN Append(st.commands, st.code_block)
    ELSE st.commands

\* extract_commands
ExtractCommands(response) == ScanFinish(ScanAll(ScanInit, Lines(response)))

\* ------------------------------------------------------ main.rs: scanner

\* language.is_empty() || language.contains("bash") || language.contains("sh")
MainEligible(language) ==
    language = <<>> \/ Contains(language, TagBash) \/ Contains(language, TagSh)

\* line.trim()[3..] of a line that starts, trimmed, with the fence mark
MainFenceTag(line) == LET t == Trim(line) IN SubSeq(t, 4, Len(t))

\* ---------------------------------------------------------------- inputs

Join(ls) ==
    LET RECURSIVE J(_)
        J(i) == IF i > Len(ls) THEN <<>>
                ELSE ls[i] \o (IF i < Len(ls) THEN S("\n") ELSE <<>>) \o J(i + 1)
    IN  J(1)

\* Texts of at most n lines of a pool, joined by "\n", with and without a
\* line terminator after the last line.
Texts(pool, n) ==
    UNION { { Join(f) \o t : f \in [1..k -> pool], t \in {<<>>, S("\n")} } : k \in 0..n }

\* Texts of at most n lines of a pool, joined by "\n".
JoinedTexts(pool, n) ==
    UNION { { Join(f) : f \in [1..k -> pool] } : k \in 0..n }

\* Lines of the texts handed to extract_and_execute_commands.
ExecLinePool ==
    { FenceMark,
      FenceMark \o TagSh,
      FenceMark \o <<"f", "i", "s", "h">>,
      <<"x">> }

\* What io::stdin().read_line can leave in the input buffer: a line with its
\* terminator, or nothing at end of input.
InputPool ==
    { <<"y", "\n">>, <<"Y", "\n">>, <<" ", "y", " ", "\r", "\n">>,
      <<"n", "\n">>, <<"\n">>, <<"y", "e", "s", "\n">>, <<>> }

\* Results of read_line: Ok with the buffer, or Err.
ReadResults ==
    { [ok |-> TRUE, input |-> i] : i \in InputPool } \cup { [ok |-> FALSE, input |-> <<>>] }

\* Results of Command::status / Command::output: Err when the process could
\* not be spawned, else the exit status.
ExecResults == { "spawn_error", "exit_0", "exit_1", "signal" }

\* ---------------------------------------------------- main.rs: streaming

\* A token of the response body: one of "{", "}", "\n", or a whole field
\* "key":value.  A chunk boundary inside a token leaves both sides as
\* undecodable as a boundary next to it does.
Tok(k, v) == [k |-> k, v |-> v]
LBrace == Tok("{", <<>>)
RBrace == Tok("}", <<>>)
Newline == Tok("\n", <<>>)
JTrue == <<"t", "r", "u", "e">>
JFalse == <<"f", "a", "l", "s", "e">>

IsField(t) == t.k \in {"response", "done", "error"}

RECURSIVE SkipNewlines(_)
SkipNewlines(c) ==
    IF c # <<>> /\ Head(c) = Newline THEN SkipNewlines(Tail(c)) ELSE c

RECURSIVE DropNewlines(_)
DropNewlines(c) ==
    IF c # <<>> /\ c[Len(c)] = Newline
    THEN DropNewlines(SubSeq(c, 1, Len(c) - 1))
    ELSE c

ParseFailed == [ok |-> FALSE, response |-> <<>>, done |-> FALSE]

FieldValue(fields, key) ==
    LET i == CHOOSE i \in 1..Len(fields) : fields[i].k = key IN fields[i].v

Count(fields, key) == Cardinality({ i \in 1..Len(fields) : fields[i].k = key })

\* serde_json::from_slice::<OllamaResponse>(&chunk) with main.rs's struct:
\* the whole chunk is one JSON object, whitespace around it allowed, and the
\* object has both response and done (neither has a serde default).
ParseChunk(chunk) ==
    LET t == DropNewlines(SkipNewlines(chunk))
        fields == SubSeq(t, 2, Len(t) - 1)
    IN  IF /\ Len(t) >= 2
           /\ t[1] = LBrace
           /\ t[Len(t)] = RBrace
           /\ \A i \in 1..Len(fields) : IsField(fields[i])
           /\ Count(fields, "response") = 1
           /\ Count(fields, "done") = 1
        THEN [ok |-> TRUE,
              response |-> FieldValue(fields, "response"),
              done |-> FieldValue(fields, "done") = JTrue]
        ELSE ParseFailed

\* serde_json::from_slice with ollama.rs's struct: response and done have
\* serde defaults, error is an Option.
ParseOllama(chunk) ==
    LET t == DropNewlines(SkipNewlines(chunk))
        fields == SubSeq(t, 2, Len(t) - 1)
    IN  IF /\ Len(t) >= 2
           /\ t[1] = LBrace
           /\ t[Len(t)] = RBrace
           /\ \A i \in 1..Len(fields) : IsField(fields[i])
           /\ \A key \in {"response", "done", "error"} : Count(fields, key) <= 1
        THEN [ok |-> TRUE,
              response |-> IF Count(fields, "response") = 1
                           THEN FieldValue(fields, "response") ELSE <<>>,
              done |-> Count(fields, "done") = 1 /\ FieldValue(fields, "done") = JTrue,
              error |-> IF Count(fields, "error") = 1
                        THEN FieldValue(fields, "error") ELSE <<>>]
        ELSE [ok |-> FALSE, response |-> <<>>, done |-> FALSE, error |-> <<>>]

\* The state of the while loop: the text so far, and whether it has broken out.
LoopStart == [full_response |-> <<>>, broke |-> FALSE]

\* LoopBody, without the break on done.
LoopBodyNoBreak(st, chunk) ==
    LET parsed == ParseChunk(chunk)
    IN  IF parsed.ok
        THEN [full_response |-> st.full_response \o parsed.response,
              broke |-> FALSE]
        ELSE st

\* The body of the while loop for one chunk.
LoopBody(st, chunk) ==
    LET parsed == ParseChunk(chunk)
    IN  IF parsed.ok
        THEN [full_response |-> st.full_response \o parsed.response,
              broke |-> parsed.done]
        ELSE st

\* Echo, writing nothing.
EchoNothing(out, chunk) == out

\* print!("{}", parsed.response): standard output after the chunk.
Echo(out, chunk) ==
    LET parsed == ParseChunk(chunk)
    IN  IF parsed.ok THEN out \o parsed.response ELSE out

\* The while loop over a whole sequence of chunks, none of them an error.
RECURSIVE FeedAll(_, _)
FeedAll(st, chunks) ==
    IF chunks = <<>> \/ st.broke THEN st
    ELSE FeedAll(LoopBody(st, Head(chunks)), Tail(chunks))

\* Response fragments the server sends.
FragPool ==
    { FenceMark \o TagSh \o <<"\n", "x", "\n">>,
      FenceMark \o <<"\n">>,
      <<"h", "i", " ">> }

Frame(fields) == <<LBrace>> \o fields \o <<RBrace>>

\* The lines the server sends: JSON objects, and one cut short before its end.
FramePool ==
    { Frame(<<Tok("response", f), Tok("done", d)>>) : f \in FragPool, d \in {JTrue, JFalse} }
    \cup { Frame(<<Tok("response", <<"h", "i", " ">>)>>),
           Frame(<<Tok("done", JTrue)>>),
           Frame(<<Tok("error", <<"e">>)>>),
           <<LBrace, Tok("response", <<"h", "i", " ">>)>> }

\* A body: at most n frames, each followed by "\n", but for the last one
\* perhaps.
BodiesOf(pool, n) ==
    LET RECURSIVE Cat(_, _, _)
        Cat(f, i, last) ==
            IF i > Len(f) THEN <<>>
            ELSE f[i] \o (IF i < Len(f) \/ last THEN <<Newline>> ELSE <<>>)
                      \o Cat(f, i + 1, last)
    IN  UNION { { Cat(f, 1, last) : f \in [1..k -> pool], last \in BOOLEAN }
                : k \in 0..n }

Bodies(n) == BodiesOf(FramePool, n)

\* ----------------------------------------------------------------- state

VARIABLES
    pc,                 \* where the program is
    impl,               \* "main": main.rs's extract_and_execute_commands; "agent": agent.rs's
    agent,              \* args.agent
    auto_approve,       \* args.yes / auto_approve
    allow_unsafe_exec,  \* third parameter of agent.rs's extract_and_execute_commands
    response,           \* the text handed to extract_and_execute_commands
    lines,              \* main.rs: lines the for loop has not visited yet
    in_code_block,      \* main.rs local
    language,           \* main.rs local
    code_block,         \* the block being accumulated (main.rs) or offered
    commands,           \* agent.rs: blocks the for loop has not visited yet
    warned,             \* the auto-approve warning was written
    log,                \* what the user and the operating system saw, in order
    body,               \* every byte the server sends, as tokens
    pending,            \* the bytes the stream has not delivered yet
    full_response,      \* main.rs local
    printed,            \* what print! has written to standard output
    spanned,            \* some chunk held bytes of more than one line
    split,              \* some chunk ended inside a line
    decoded,            \* the frames the loop has decoded, in order
    errorSeen,          \* a chunk was a frame with a non-empty error field
    ended,              \* how the while loop ended: "no", "done", "eof", "error"
    run,                \* 1, or 2 when the function is called a second time
    log0,               \* the log of the first call
    pc0,                \* how the first call ended
    warned0,            \* whether the first call wrote the warning
    method,             \* LocalRuntime: "generate" or "generate_stream"
    model,              \* the ModelProfile handed to it
    prompt_len,         \* prompt.len(), in bytes
    overflow_checks,    \* the build panics on integer overflow (debug) or wraps
    provider_calls,     \* calls of the provider's generate / generate_stream
    result              \* what the method returned

execVars ==
    <<impl, agent, auto_approve, allow_unsafe_exec, response, lines,
      in_code_block, language, code_block, commands, warned, log>>

streamVars ==
    <<body, pending, full_response, printed, spanned, split, decoded, errorSeen, ended>>

twinVars == <<run, log0, pc0, warned0>>

rtVars == <<method, model, prompt_len, overflow_checks, provider_calls, result>>

vars == <<pc, execVars, streamVars, twinVars, rtVars>>

Event(e, a) == [ev |-> e, arg |-> a]

\* A value of Result<_, RuntimeError>, or none yet.
Outcome(kind, tokens, max) == [kind |-> kind, tokens |-> tokens, max_tokens |-> max]

\* Every run that is not one of LocalRuntime leaves its variables alone.
RtIdle ==
    /\ method = "generate"
    /\ model = [name |-> <<>>, context_window |-> 0, max_tokens |-> 0]
    /\ prompt_len = 0
    /\ overflow_checks = FALSE
    /\ provider_calls = 0
    /\ result = Outcome("none", 0, 0)

\* IsYes, comparing case-sensitively.
IsYesExact(input) == Trim(input) = <<"y">>
\* input.trim().eq_ignore_ascii_case("y")
IsYes(input) == EqIgnoreAsciiCase(Trim(input), <<"y">>)

\* ------------------------------------------- extract_and_execute_commands

\* Entry of the function: the locals before the loop.
Call ==
    /\ pc = "call"
    /\ pc' = "scan"
    /\ IF impl = "agent"
       THEN /\ warned' = (auto_approve /\ ~allow_unsafe_exec)
            /\ commands' = ExtractCommands(response)
            /\ lines' = <<>>
       ELSE /\ warned' = FALSE
            /\ commands' = <<>>
            /\ lines' = Lines(response)
    /\ in_code_block' = FALSE
    /\ code_block' = <<>>
    /\ language' = <<>>
    /\ UNCHANGED <<impl, agent, auto_approve, allow_unsafe_exec, response, log>>
    /\ UNCHANGED <<streamVars, twinVars, rtVars>>

\* LaunchPc, going on with the loop while the subprocess runs.
LaunchPcNoWait == "scan"

\* Where the loop is once bash is launched: in Command::status / output,
\* which waits for the subprocess to end.
LaunchPc == "exec"

\* OfferedPc, skipping the approval read only with allow_unsafe_exec.
OfferedPcNeedsUnsafe == IF auto_approve /\ allow_unsafe_exec THEN LaunchPc ELSE "read"

\* The block is displayed; then the approval read, or straight to execute_bash.
OfferedPc == IF auto_approve THEN LaunchPc ELSE "read"
\* OfferedLog, going to the approval read with nothing written.
OfferedLogSilent(block) ==
    IF auto_approve
    THEN log \o <<Event("found", block), Event("launch", block)>>
    ELSE log

OfferedLog(block) ==
    IF auto_approve
    THEN log \o <<Event("found", block), Event("launch", block)>>
    ELSE log \o <<Event("found", block), Event("prompt", block)>>

\* main.rs: one iteration of the for loop over response.lines().
MainLine ==
    /\ pc = "scan" /\ impl = "main" /\ lines # <<>>
    /\ LET line == Head(lines) IN
       /\ lines' = Tail(lines)
       /\ IF StartsWith(Trim(line), FenceMark)
          THEN IF in_code_block
               THEN /\ in_code_block' = FALSE
                    /\ IF MainEligible(language)
                       THEN /\ pc' = OfferedPc
                            /\ log' = OfferedLog(code_block)
                            /\ UNCHANGED <<code_block, language>>
                       ELSE /\ pc' = "scan"
                            /\ code_block' = <<>>
                            /\ language' = <<>>
                            /\ UNCHANGED log
               ELSE /\ in_code_block' = TRUE
                    /\ language' = MainFenceTag(line)
                    /\ UNCHANGED <<pc, code_block, log>>
          ELSE /\ code_block' = IF in_code_block
                                THEN code_block \o line \o S("\n")
                                ELSE code_block
               /\ UNCHANGED <<pc, in_code_block, language, log>>
    /\ UNCHANGED <<impl, agent, auto_approve, allow_unsafe_exec, response, commands, warned>>
    /\ UNCHANGED <<streamVars, twinVars, rtVars>>

\* agent.rs: one iteration of the for loop over commands, up to the read.
AgentBlock ==
    /\ pc = "scan" /\ impl = "agent" /\ commands # <<>>
    /\ code_block' = Head(commands)
    /\ commands' = Tail(commands)
    /\ pc' = OfferedPc
    /\ log' = OfferedLog(Head(commands))
    /\ UNCHANGED <<impl, agent, auto_approve, allow_unsafe_exec, response, lines,
                   in_code_block, language, warned>>
    /\ UNCHANGED <<streamVars, twinVars, rtVars>>

\* The loop is over: Ok(()).
LoopEnd ==
    /\ pc = "scan"
    /\ IF impl = "main" THEN lines = <<>> ELSE commands = <<>>
    /\ pc' = "returned"
    /\ UNCHANGED execVars
    /\ UNCHANGED <<streamVars, twinVars, rtVars>>

\* SkipPc, leaving the loop at the first block skipped.
SkipPcBreaks == "returned"

\* SkipPc, falling through to execute_bash.
SkipPcFallThrough == LaunchPc

\* Where the loop goes after Skipped: continue, on to the next block.
SkipPc == "scan"

\* io::stdin().read_line(&mut input)? and the test of the answer.
Read ==
    /\ pc = "read"
    /\ \E r \in ReadResults :
         IF ~r.ok
         THEN /\ pc' = "failed"
              /\ log' = Append(log, Event("read_error", <<>>))
              /\ UNCHANGED <<code_block, language>>
         ELSE IF IsYes(r.input)
         THEN /\ pc' = LaunchPc
              /\ log' = log \o <<Event("read", r.input), Event("launch", code_block)>>
              /\ UNCHANGED <<code_block, language>>
         ELSE /\ pc' = SkipPc
              /\ log' = log \o <<Event("read", r.input), Event("skipped", code_block)>>
              /\ code_block' = <<>>
              /\ language' = <<>>
    /\ UNCHANGED <<impl, agent, auto_approve, allow_unsafe_exec, response, lines,
                   in_code_block, commands, warned>>
    /\ UNCHANGED <<streamVars, twinVars, rtVars>>

\* Where execute_bash's caller goes when the process cannot be spawned: the ?
\* on status()/output() returns the error, and the caller's ? returns it again.
SpawnErrPc == "failed"

\* StatusPc, treating a command killed by a signal as an error of the run.
StatusAbortOnSignal(r) == IF r = "signal" THEN "failed" ELSE "scan"

\* StatusPc, treating a failed command as an error of the run.
StatusAbort(r) == IF r = "exit_0" THEN "scan" ELSE "failed"
\* Where the loop goes after a process that was spawned has ended.
StatusPc(r) == "scan"

\* execute_bash: the subprocess runs to its end, or cannot be spawned.
Exec ==
    /\ pc = "exec"
    /\ \E r \in ExecResults :
         /\ pc' = IF r = "spawn_error" THEN SpawnErrPc ELSE StatusPc(r)
         /\ log' = Append(log, Event(r, code_block))
    /\ code_block' = <<>>
    /\ language' = <<>>
    /\ UNCHANGED <<impl, agent, auto_approve, allow_unsafe_exec, response, lines,
                   in_code_block, commands, warned>>
    /\ UNCHANGED <<streamVars, twinVars, rtVars>>

\* ------------------------------------------------------------------ main

\* stream.next().await yields Some(Ok(chunk)): one pass of the while loop.
Chunk ==
    /\ pc = "stream" /\ pending # <<>>
    /\ \E n \in 1..Len(pending) :
         LET chunk == SubSeq(pending, 1, n)
             st == LoopBody([full_response |-> full_response, broke |-> FALSE], chunk)
             parsed == ParseChunk(chunk)
             frame == ParseOllama(chunk)
         IN  /\ pending' = SubSeq(pending, n + 1, Len(pending))
             /\ full_response' = st.full_response
             /\ printed' = Echo(printed, chunk)
             /\ pc' = IF st.broke THEN "generated" ELSE "stream"
             /\ ended' = IF st.broke THEN "done" ELSE "no"
             /\ spanned' = (spanned \/ \E i \in 1..(n - 1) : chunk[i] = Newline)
             /\ split' = (split \/ (n < Len(pending) /\ chunk[n] # Newline))
             /\ decoded' = IF parsed.ok
                           THEN Append(decoded, [response |-> parsed.response,
                                                 done |-> parsed.done])
                           ELSE decoded
             /\ errorSeen' = (errorSeen \/ (frame.ok /\ frame.error # <<>>))
    /\ UNCHANGED <<execVars, body, twinVars, rtVars>>

\* StreamErrPc, taking the error for the end of the stream.
StreamErrAsEnd == "generated"

\* Where main goes when the stream yields an error: chunk? returns it.
StreamErrPc == "failed"

\* stream.next().await yields Some(Err(e)).
StreamError ==
    /\ pc = "stream"
    /\ pc' = StreamErrPc
    /\ ended' = "error"
    /\ UNCHANGED <<execVars, body, pending, full_response, printed, spanned, split,
                   decoded, errorSeen, twinVars, rtVars>>

\* stream.next().await yields None: the while loop ends.
StreamEnd ==
    /\ pc = "stream" /\ pending = <<>>
    /\ pc' = "generated"
    /\ ended' = "eof"
    /\ UNCHANGED <<execVars, body, pending, full_response, printed, spanned, split,
                   decoded, errorSeen, twinVars, rtVars>>

\* RunsAgentPhase, whatever the flag.
RunsAgentPhaseAlways == TRUE

\* if args.agent
RunsAgentPhase == agent

\* CallArg, handing over what was written to standard output.
CallArgEchoed(acc, out) == out

\* The text main hands to extract_and_execute_commands: &full_response.
CallArg(acc, out) == acc

\* After the loop: println, then the agent phase if args.agent.
AfterLoop ==
    /\ pc = "generated"
    /\ printed' = printed \o <<"\n", "\n">>
    /\ IF RunsAgentPhase
       THEN /\ pc' = "call"
            /\ response' = CallArg(full_response, printed')
       ELSE /\ pc' = "complete"
            /\ UNCHANGED response
    /\ UNCHANGED <<impl, agent, auto_approve, allow_unsafe_exec, lines, in_code_block,
                   language, code_block, commands, warned, log>>
    /\ UNCHANGED <<body, pending, full_response, spanned, split, decoded, errorSeen,
                   ended, twinVars, rtVars>>

\* extract_and_execute_commands returned Ok: main prints Complete and returns Ok.
Complete ==
    /\ pc = "returned"
    /\ pc' = "complete"
    /\ UNCHANGED <<execVars, streamVars, twinVars, rtVars>>

Init ==
    /\ pc = "stream"
    /\ impl = "main"
    /\ agent \in BOOLEAN
    /\ auto_approve \in BOOLEAN
    /\ allow_unsafe_exec = FALSE
    /\ response = <<>>
    /\ lines = <<>>
    /\ in_code_block = FALSE
    /\ language = <<>>
    /\ code_block = <<>>
    /\ commands = <<>>
    /\ warned = FALSE
    /\ log = <<>>
    /\ body \in Bodies(MaxFrames)
    /\ pending = body
    /\ full_response = <<>>
    /\ printed = <<>>
    /\ spanned = FALSE
    /\ split = FALSE
    /\ decoded = <<>>
    /\ errorSeen = FALSE
    /\ ended = "no"
    /\ run = 1
    /\ log0 = <<>>
    /\ pc0 = "call"
    /\ warned0 = FALSE
    /\ RtIdle

Next ==
    \/ Chunk \/ StreamError \/ StreamEnd \/ AfterLoop
    \/ Call \/ MainLine \/ LoopEnd \/ Read \/ Exec
    \/ Complete

Spec == Init /\ [][Next]_vars

\* ------------------------------------------------------------ SpecExec

\* extract_and_execute_commands of either file, called on a drawn text.
InitExec ==
    /\ pc = "call"
    /\ impl \in {"main", "agent"}
    /\ agent = TRUE
    /\ auto_approve \in BOOLEAN
    /\ allow_unsafe_exec \in (IF impl = "agent" THEN BOOLEAN ELSE {FALSE})
    /\ response \in JoinedTexts(ExecLinePool, MaxExecLines)
    /\ lines = <<>>
    /\ in_code_block = FALSE
    /\ language = <<>>
    /\ code_block = <<>>
    /\ commands = <<>>
    /\ warned = FALSE
    /\ log = <<>>
    /\ body = <<>>
    /\ pending = <<>>
    /\ full_response = <<>>
    /\ printed = <<>>
    /\ spanned = FALSE
    /\ split = FALSE
    /\ decoded = <<>>
    /\ errorSeen = FALSE
    /\ ended = "no"
    /\ run = 1
    /\ log0 = <<>>
    /\ pc0 = "call"
    /\ warned0 = FALSE
    /\ RtIdle

NextExec == Call \/ MainLine \/ AgentBlock \/ LoopEnd \/ Read \/ Exec

SpecExec == InitExec /\ [][NextExec]_vars

\* ---------------------------------------------------------- SpecExtract

\* Lines of the texts handed to extract_commands alone.
LinePool ==
    { FenceMark,
      FenceMark \o TagSh,
      <<" ", " ">> \o FenceMark \o <<" ">> \o TagBash \o <<" ", "-", "x", " ">>,
      FenceMark \o <<"f", "i", "s", "h">>,
      FenceMark \o <<"B", "a", "s", "h">>,
      FenceMark \o TagBash \o <<"r", "c">>,
      <<" ", "y", "\t">>,
      <<>> }

\* extract_commands, called on a drawn text.
InitExtract ==
    /\ pc = "extract"
    /\ impl = "agent"
    /\ agent = TRUE
    /\ auto_approve = FALSE
    /\ allow_unsafe_exec = FALSE
    /\ response \in Texts(LinePool, MaxLines)
    /\ lines = <<>>
    /\ in_code_block = FALSE
    /\ language = <<>>
    /\ code_block = <<>>
    /\ commands = <<>>
    /\ warned = FALSE
    /\ log = <<>>
    /\ body = <<>>
    /\ pending = <<>>
    /\ full_response = <<>>
    /\ printed = <<>>
    /\ spanned = FALSE
    /\ split = FALSE
    /\ decoded = <<>>
    /\ errorSeen = FALSE
    /\ ended = "no"
    /\ run = 1
    /\ log0 = <<>>
    /\ pc0 = "call"
    /\ warned0 = FALSE
    /\ RtIdle

Extract ==
    /\ pc = "extract"
    /\ pc' = "extracted"
    /\ commands' = ExtractCommands(response)
    /\ UNCHANGED <<impl, agent, auto_approve, allow_unsafe_exec, response, lines,
                   in_code_block, language, code_block, warned, log>>
    /\ UNCHANGED <<streamVars, twinVars, rtVars>>

NextExtract == Extract

SpecExtract == InitExtract /\ [][NextExtract]_vars

\* ------------------------------------------------------------- SpecTwin

\* Longest response text, in lines, handed to two calls in a row.
MaxTwinLines == 3

\* What the function is given from outside while it runs: the results of
\* read_line, and the outcomes of the subprocesses.
ReadEvents == {"read", "read_error"}
OutcomeEvents == {"exit_0", "exit_1", "signal", "spawn_error"}

\* Where both calls were given a result of the same kind from outside, it
\* was the same result.
SameInputs ==
    \A i \in 1..Len(log) :
        ( /\ i <= Len(log0)
          /\ \/ log[i].ev \in ReadEvents /\ log0[i].ev \in ReadEvents
             \/ log[i].ev \in OutcomeEvents /\ log0[i].ev \in OutcomeEvents )
        => log[i] = log0[i]

\* agent.rs's extract_and_execute_commands, called on a drawn text.
InitTwin ==
    /\ pc = "call"
    /\ impl = "agent"
    /\ agent = TRUE
    /\ auto_approve \in BOOLEAN
    /\ allow_unsafe_exec \in BOOLEAN
    /\ response \in JoinedTexts(ExecLinePool, MaxTwinLines)
    /\ lines = <<>>
    /\ in_code_block = FALSE
    /\ language = <<>>
    /\ code_block = <<>>
    /\ commands = <<>>
    /\ warned = FALSE
    /\ log = <<>>
    /\ body = <<>>
    /\ pending = <<>>
    /\ full_response = <<>>
    /\ printed = <<>>
    /\ spanned = FALSE
    /\ split = FALSE
    /\ decoded = <<>>
    /\ errorSeen = FALSE
    /\ ended = "no"
    /\ run = 1
    /\ log0 = <<>>
    /\ pc0 = "call"
    /\ warned0 = FALSE
    /\ RtIdle

\* The function has returned; it is called again on the same text with the
\* same policy and the other value of allow_unsafe_exec.
Rerun ==
    /\ run = 1
    /\ pc \in {"returned", "failed"}
    /\ run' = 2
    /\ log0' = log
    /\ pc0' = pc
    /\ warned0' = warned
    /\ allow_unsafe_exec' = ~allow_unsafe_exec
    /\ pc' = "call"
    /\ log' = <<>>
    /\ warned' = FALSE
    /\ lines' = <<>>
    /\ in_code_block' = FALSE
    /\ language' = <<>>
    /\ code_block' = <<>>
    /\ commands' = <<>>
    /\ UNCHANGED <<impl, agent, auto_approve, response>>
    /\ UNCHANGED <<streamVars, rtVars>>

\* A step of the function; the second call is given what the first was given.
TwinStep == (Call \/ AgentBlock \/ LoopEnd \/ Read \/ Exec) /\ SameInputs'

NextTwin == TwinStep \/ Rerun

SpecTwin == InitTwin /\ [][NextTwin]_vars

\* ---------------------------------------------------------- SpecRuntime

\* usize, scaled down to this many bits.
UsizeBits == 4

UsizeMax == 2 ^ UsizeBits - 1

\* The longest String: isize::MAX bytes.
MaxPromptLen == 2 ^ (UsizeBits - 1) - 1

\* Release arithmetic on usize.
WrapUsize(n) == n % (2 ^ UsizeBits)

OkOutcome == Outcome("Ok", 0, 0)

\* ModelValidate, without the test of max_tokens against context_window.
ModelValidateNoUpper(m) ==
    IF m.name = <<>> THEN Outcome("InvalidConfig", 0, 0)
    ELSE IF m.context_window = 0 THEN Outcome("InvalidConfig", 0, 0)
    ELSE IF m.max_tokens = 0 THEN Outcome("InvalidConfig", 0, 0)
    ELSE OkOutcome

\* ModelProfile::validate
ModelValidate(m) ==
    IF m.name = <<>> THEN Outcome("InvalidConfig", 0, 0)
    ELSE IF m.context_window = 0 THEN Outcome("InvalidConfig", 0, 0)
    ELSE IF m.max_tokens = 0 THEN Outcome("InvalidConfig", 0, 0)
    ELSE IF m.max_tokens > m.context_window THEN Outcome("InvalidConfig", 0, 0)
    ELSE OkOutcome

\* CompletionRequest::validate.  The sum is a usize: where it does not fit,
\* a build with overflow checks panics and one without them wraps.
RequestValidate(len, m, checks) ==
    IF ModelValidate(m).kind # "Ok" THEN ModelValidate(m)
    ELSE LET sum == (len \div 4) + m.max_tokens
             estimated_tokens == WrapUsize(sum)
         IN  IF sum > UsizeMax /\ checks THEN Outcome("panic", 0, 0)
             ELSE IF estimated_tokens > m.context_window
             THEN Outcome("ContextOverflow", estimated_tokens, m.context_window)
             ELSE OkOutcome

\* AfterRequestValidate, going on to the provider whatever validate returned.
AfterRequestValidateIgnore(r) == "rt_provider"

\* request.validate()?
AfterRequestValidate(r) == IF r.kind = "Ok" THEN "rt_provider" ELSE "rt_done"

\* LocalRuntime::generate or generate_stream, called on a drawn profile and
\* prompt.
InitRuntime ==
    /\ pc = "rt_start"
    /\ method \in {"generate", "generate_stream"}
    /\ model \in [name : {<<>>, <<"m">>},
                  context_window : 0..UsizeMax,
                  max_tokens : 0..UsizeMax]
    /\ prompt_len \in 0..MaxPromptLen
    /\ overflow_checks \in BOOLEAN
    /\ provider_calls = 0
    /\ result = Outcome("none", 0, 0)
    /\ impl = "agent"
    /\ agent = FALSE
    /\ auto_approve = FALSE
    /\ allow_unsafe_exec = FALSE
    /\ response = <<>>
    /\ lines = <<>>
    /\ in_code_block = FALSE
    /\ language = <<>>
    /\ code_block = <<>>
    /\ commands = <<>>
    /\ warned = FALSE
    /\ log = <<>>
    /\ body = <<>>
    /\ pending = <<>>
    /\ full_response = <<>>
    /\ printed = <<>>
    /\ spanned = FALSE
    /\ split = FALSE
    /\ decoded = <<>>
    /\ errorSeen = FALSE
    /\ ended = "no"
    /\ run = 1
    /\ log0 = <<>>
    /\ pc0 = "call"
    /\ warned0 = FALSE

\* model.validate()?
RtValidateModel ==
    /\ pc = "rt_start"
    /\ LET r == ModelValidate(model) IN
       /\ pc' = IF r.kind = "Ok" THEN "rt_request" ELSE "rt_done"
       /\ result' = IF r.kind = "Ok" THEN result ELSE r
    /\ UNCHANGED <<method, model, prompt_len, overflow_checks, provider_calls>>
    /\ UNCHANGED <<execVars, streamVars, twinVars>>

\* CompletionRequest::new(prompt, model), then request.validate()?
RtValidateRequest ==
    /\ pc = "rt_request"
    /\ LET r == RequestValidate(prompt_len, model, overflow_checks) IN
       /\ pc' = AfterRequestValidate(r)
       /\ result' = IF r.kind = "Ok" THEN result ELSE r
    /\ UNCHANGED <<method, model, prompt_len, overflow_checks, provider_calls>>
    /\ UNCHANGED <<execVars, streamVars, twinVars>>

\* self.provider.generate(request).await or generate_stream: what the
\* provider returns is what the method returns.
RtProvider ==
    /\ pc = "rt_provider"
    /\ provider_calls' = provider_calls + 1
    /\ \E kind \in {"Ok", "ProviderError"} : result' = Outcome(kind, 0, 0)
    /\ pc' = "rt_done"
    /\ UNCHANGED <<method, model, prompt_len, overflow_checks>>
    /\ UNCHANGED <<execVars, streamVars, twinVars>>

NextRuntime == RtValidateModel \/ RtValidateRequest \/ RtProvider

SpecRuntime == InitRuntime /\ [][NextRuntime]_vars

\* ------------------------------------------------- what the text contains

\* The fenced blocks of a text, read off its lines ls without scanning: the
\* fence lines in order are opening, closing, opening, ...; a block runs from
\* its opening fence to the next fence line, or to the end of the text.
FenceLines(ls) == { i \in 1..Len(ls) : IsFence(ls[i]) }

Openings(ls) ==
    LET F == FenceLines(ls)
    IN  { i \in F : Cardinality({ j \in F : j < i }) % 2 = 0 }

ClosingOf(ls, o) ==
    LET later == { j \in FenceLines(ls) : j > o }
    IN  IF later # {}
        THEN CHOOSE j \in later : \A m \in later : j <= m
        ELSE Len(ls) + 1

\* The tag of an opening fence: what follows the three backquotes.
TagOf(ls, o) == LET t == Trim(ls[o]) IN SubSeq(t, 4, Len(t))

\* The tag is empty, or its first whitespace-delimited token is bash or sh.
TagIsShell(tag) ==
    LET t == TrimStart(tag) IN
    \/ t = <<>>
    \/ \E w \in {TagBash, TagSh} :
         /\ StartsWith(t, w)
         /\ (Len(t) > Len(w) => IsWhitespace(t[Len(w) + 1]))

ShellOpenings(ls) == { o \in Openings(ls) : TagIsShell(TagOf(ls, o)) }

\* The lines strictly between a block's fences, each followed by "\n".
ContentOf(ls, o) ==
    LET c == ClosingOf(ls, o)
        RECURSIVE Cat(_)
        Cat(i) == IF i >= c THEN <<>> ELSE ls[i] \o S("\n") \o Cat(i + 1)
    IN  Cat(o + 1)

\* The k-th element of a set of line numbers, ascending.
Nth(set, k) == CHOOSE i \in set : Cardinality({ j \in set : j <= i }) = k

\* The contents of the shell blocks of a text, in document order.
ShellBlocks(text) ==
    LET ls == Lines(text)
        so == ShellOpenings(ls)
    IN  [k \in 1..Cardinality(so) |-> ContentOf(ls, Nth(so, k))]

\* The blocks displayed to the user so far, in order.
Offered ==
    LET RECURSIVE F(_)
        F(i) == IF i > Len(log) THEN <<>>
                ELSE (IF log[i].ev = "found" THEN <<log[i].arg>> ELSE <<>>) \o F(i + 1)
    IN  F(1)

\* The scripts handed to execute_bash so far, in order.
Launched ==
    LET RECURSIVE F(_)
        F(i) == IF i > Len(log) THEN <<>>
                ELSE (IF log[i].ev = "launch" THEN <<log[i].arg>> ELSE <<>>) \o F(i + 1)
    IN  F(1)

IsPrefix(a, b) == Len(a) <= Len(b) /\ SubSeq(b, 1, Len(a)) = a

HasEvent(e) == \E i \in 1..Len(log) : log[i].ev = e

\* ------------------------------------------------------------------ claims

\* The lines of a body: the runs of tokens between its "\n" tokens.
BodyLines(b) ==
    LET RECURSIVE Sp(_, _)
        Sp(i, cur) ==
            IF i > Len(b) THEN (IF cur = <<>> THEN <<>> ELSE <<cur>>)
            ELSE IF b[i] = Newline THEN <<cur>> \o Sp(i + 1, <<>>)
            ELSE Sp(i + 1, Append(cur, b[i]))
    IN  Sp(1, <<>>)

NewlineTerminated(b) == b # <<>> /\ b[Len(b)] = Newline

\* C1: however the bytes of a sequence of newline-terminated frame lines are
\* cut into chunks, the streaming loop accumulates the same response text as
\* it does when the whole sequence arrives as a single chunk.
C1_Reconstruction ==
    (pc = "generated" /\ NewlineTerminated(body)) =>
        full_response = FeedAll(LoopStart, <<body>>).full_response

\* C2: no received byte is dropped: a frame whose JSON arrives split over two
\* or more chunks still contributes its response text.  With every line of
\* the body a decodable frame and no chunk reaching over a line end, the text
\* accumulated when the loop ends is that of the frames up to the first done.
C2_SplitFrameContributes ==
    LET ls == BodyLines(body)
    IN  ( /\ pc = "generated"
          /\ ~spanned
          /\ \A i \in 1..Len(ls) : ParseChunk(ls[i]).ok )
        => full_response = FeedAll(LoopStart, ls).full_response


\* C4: for a text with N fenced blocks of which M are eligible, extract_commands
\* returns exactly M blocks, in the order of their opening fences, and nothing
\* of the text outside the fences.
C4_ExtractionCountAndOrder ==
    pc = "extracted" =>
        LET ls == Lines(response)
            so == ShellOpenings(ls)
        IN  /\ Len(commands) = Cardinality(so)
            /\ \A k \in 1..Len(commands) : commands[k] = ContentOf(ls, Nth(so, k))

\* C4 witness: two fenced blocks, one eligible, and a line outside any fence.
W4_MixedBlocks ==
    /\ pc = "extracted"
    /\ LET ls == Lines(response) IN
       /\ Cardinality(Openings(ls)) = 2
       /\ Cardinality(ShellOpenings(ls)) = 1
       /\ \E i \in 1..Len(ls) :
            /\ ~IsFence(ls[i])
            /\ \A o \in Openings(ls) : ~(o < i /\ i < ClosingOf(ls, o))
    /\ Len(commands) = 1

\* C6: the content of every emitted block is the lines strictly between its
\* fences, in order, each followed by one line break and otherwise untouched;
\* an eligible block with no line between its fences is emitted, empty.
SplitBreaks(s) ==
    LET RECURSIVE Sp(_)
        Sp(t) == IF t = <<>> THEN <<>>
                 ELSE LET seg == UpToNewline(t)
                      IN  <<seg>> \o Sp(SubSeq(t, Len(seg) + 2, Len(t)))
    IN  Sp(s)

C6_ContentFidelity ==
    pc = "extracted" =>
        LET ls == Lines(response)
            so == ShellOpenings(ls)
        IN  /\ Len(commands) = Cardinality(so)
            /\ \A k \in 1..Len(commands) :
                 LET o == Nth(so, k)
                     c == ClosingOf(ls, o)
                 IN  /\ commands[k] # <<>> => commands[k][Len(commands[k])] = "\n"
                     /\ SplitBreaks(commands[k]) = SubSeq(ls, o + 1, c - 1)
                     /\ c = o + 1 => commands[k] = <<>>

\* C6 witness: a block whose line has leading and trailing whitespace, and an
\* eligible block with nothing between its fences.
W6_WhitespaceAndEmpty ==
    /\ pc = "extracted"
    /\ \E k \in 1..Len(commands) : commands[k] = <<" ", "y", "\t", "\n">>
    /\ \E k \in 1..Len(commands) : commands[k] = <<>>

\* The answer, but for whitespace around it, is the one letter y or Y.
SaysYes(input) ==
    \E i \in 1..Len(input) :
        /\ input[i] \in {"y", "Y"}
        /\ \A j \in 1..Len(input) : j # i => IsWhitespace(input[j])

LoopGoesOn == pc \in {"scan", "returned", "complete"}

\* C7: with the interactive policy a block is executed exactly when the line
\* read for it, trimmed, is y in either case; on any other line, the empty one
\* included, it is skipped, no subprocess is launched for it, and the loop goes
\* on to the next block.
C7_InteractiveApproval ==
    ~auto_approve =>
        /\ \A i \in 1..Len(log) :
             log[i].ev = "read" =>
                /\ i > 1 /\ log[i - 1].ev = "prompt"
                /\ i < Len(log)
                /\ IF SaysYes(log[i].arg)
                   THEN log[i + 1] = Event("launch", log[i - 1].arg)
                   ELSE /\ log[i + 1] = Event("skipped", log[i - 1].arg)
                        /\ i + 1 = Len(log) => LoopGoesOn
                        /\ i + 1 < Len(log) => log[i + 2].ev = "found"
        /\ \A i \in 1..Len(log) :
             log[i].ev = "launch" =>
                i > 1 /\ log[i - 1].ev = "read" /\ SaysYes(log[i - 1].arg)

\* C7 witness: a block skipped on an empty line, then a later block approved
\* with an upper-case Y.
W7_SkipThenApprove ==
    /\ ~auto_approve
    /\ \E i, j \in 1..Len(log) :
         /\ i < j
         /\ log[i] = Event("read", <<"\n">>)
         /\ log[i + 1].ev = "skipped"
         /\ log[j] = Event("read", <<"Y", "\n">>)
         /\ j < Len(log) /\ log[j + 1].ev = "launch"

\* The blocks extract_and_execute_commands has extracted: the vector returned
\* by extract_commands (agent.rs), the blocks found by the inline scan (main.rs).
ExtractedBlocks == IF impl = "agent" THEN ExtractCommands(response) ELSE Offered

ExecLoopOver == pc \in {"returned", "failed", "complete"}

\* C8: with the auto-approve policy no read of the interactive input is ever
\* performed, and every extracted block is approved and executed.
C8_AutoApproveAll ==
    auto_approve =>
        /\ ~HasEvent("prompt") /\ ~HasEvent("read") /\ ~HasEvent("read_error")
        /\ ExecLoopOver /\ HasEvent("found") => Launched = ExtractedBlocks

IsFailedExit(e) == e \in {"exit_1", "signal"}

\* C9: a subprocess that exits non-zero or abnormally is reported for its block
\* only: the loop is not aborted and the next extracted block is still offered.
C9_NonFatalExecution ==
    /\ \A i \in 1..Len(log) :
         IsFailedExit(log[i].ev) =>
            /\ i > 1 /\ log[i - 1] = Event("launch", log[i].arg)
            /\ i = Len(log) => LoopGoesOn
            /\ i < Len(log) => log[i + 1].ev = "found"
    /\ (pc = "returned" /\ impl = "agent") => Offered = ExtractCommands(response)

\* C9 witness: a command failed and a later block was offered all the same.
W9_FailedThenOffered ==
    \E i, j \in 1..Len(log) :
        /\ i < j
        /\ log[i].ev = "exit_1"
        /\ log[j].ev = "found"

\* C10: a subprocess that cannot be launched is reported for its block only,
\* like a non-zero exit: the run is not aborted and every later block is
\* still offered.
C10_LaunchFailureLocal ==
    \A i \in 1..Len(log) :
        log[i].ev = "spawn_error" =>
            /\ i = Len(log) => LoopGoesOn
            /\ i < Len(log) => log[i + 1].ev = "found"

\* C3: a block is offered for execution only if its opening fence's tag is
\* empty or has bash or sh as its first token: the offered blocks are among
\* the shell blocks of the text, in their order.
C3_ExactTagOnly ==
    LET shell == ShellBlocks(response)
    IN  /\ IsPrefix(Offered, shell)
        /\ \A i \in 1..Len(log) :
             log[i].ev = "launch" => \E k \in 1..Len(shell) : shell[k] = log[i].arg

\* C5: when the text ends inside a block whose tag is eligible, the block is
\* closed at the end of input and emitted with every line after its fence.
C5_UnterminatedEmitted ==
    pc = "returned" =>
        LET ls == Lines(response)
            O == Openings(ls)
        IN  \A o \in O :
              (ClosingOf(ls, o) = Len(ls) + 1 /\ TagIsShell(TagOf(ls, o))) =>
                 /\ Offered # <<>>
                 /\ Offered[Len(Offered)] = ContentOf(ls, o)

\* C11: with the interactive policy, when the approval input cannot be read
\* for a block, the closed input stream included, the run aborts: the block
\* is not executed and no later block is displayed, offered or executed.
C11_ReadFailureFatal ==
    ~auto_approve =>
        \A i \in 1..Len(log) :
            (log[i].ev = "read_error" \/ log[i] = Event("read", <<>>)) =>
                /\ pc = "failed"
                /\ \A j \in (i + 1)..Len(log) :
                     log[j].ev \notin {"found", "prompt", "launch"}

\* C12: a frame with a non-empty error field ends the generation phase: from
\* that frame on the loop does not wait for another chunk.
C12_ErrorFrameEndsGeneration == errorSeen => pc # "stream"

\* The bytes the stream has delivered.
Delivered == SubSeq(body, 1, Len(body) - Len(pending))

\* C13: when the stream ends with bytes received that are no valid frame, the
\* run aborts with a decode error: it does not succeed and no block is
\* extracted, offered or executed.
C13_DecodeErrorAtEndFatal ==
    LET ls == BodyLines(body)
    IN  (ended = "eof" /\ \E i \in 1..Len(ls) : ~ParseOllama(ls[i]).ok)
        => (pc = "failed" /\ log = <<>> /\ response = <<>>)

\* C14: when reading the next chunk fails the run aborts at once: no later
\* chunk is read, no block is offered and no subprocess is launched, whatever
\* text was accumulated.
C14_StreamErrorFatal ==
    ended = "error" =>
        /\ pc = "failed"
        /\ ~ENABLED Chunk
        /\ log = <<>>
        /\ response = <<>> /\ lines = <<>>

\* C14 witness: the stream failed with bytes still to come, after text with a
\* shell block was accumulated, in agent mode with auto-approve.
W14_ErrorAfterText ==
    /\ ended = "error"
    /\ agent /\ auto_approve
    /\ pending # <<>>
    /\ ShellBlocks(full_response) # <<>>

\* The response values of a sequence of frames, concatenated.
ConcatResponses(fs) ==
    LET RECURSIVE Cat(_)
        Cat(i) == IF i > Len(fs) THEN <<>> ELSE fs[i].response \o Cat(i + 1)
    IN  Cat(1)

\* C15: when a frame with done = true is decoded its response is appended and
\* echoed like any other, and the generation phase ends with success: no chunk
\* after it is read and no later frame's text enters the response text.
C15_CompletionFrame ==
    \A i \in 1..Len(decoded) :
        decoded[i].done =>
            /\ i = Len(decoded)
            /\ ended = "done"
            /\ pc # "stream"
            /\ ~ENABLED Chunk /\ ~ENABLED StreamError
            /\ full_response = ConcatResponses(decoded)
            /\ IsPrefix(full_response, printed)

\* C15 witness: the run completed after a done frame that carried text, with
\* a later frame carrying text left unread.
W15_DoneWithTextThenMore ==
    /\ pc = "complete"
    /\ ended = "done"
    /\ decoded[Len(decoded)].response # <<>>
    /\ FeedAll(LoopStart, BodyLines(pending)).full_response # <<>>

\* C16: all through the generation phase the text written to standard output
\* is the accumulated response text, and both are the response values of the
\* frames decoded so far, in order; the response text only grows at its end.
C16_Accumulator ==
    /\ [](pc \in {"stream", "generated"} =>
            /\ printed = full_response
            /\ full_response = ConcatResponses(decoded))
    /\ [][IsPrefix(full_response, full_response')]_vars

\* C16 witness: two frames with text decoded, the loop still running.
W16_TwoFragments ==
    /\ pc = "stream"
    /\ Len(decoded) = 2
    /\ decoded[1].response # <<>> /\ decoded[2].response # <<>>
    /\ printed = decoded[1].response \o decoded[2].response

\* C17: a line that is valid JSON but omits response or done is decoded with
\* response empty and done false, not dropped: with every chunk one whole
\* line and every line such a frame, each line delivered is a decoded frame,
\* and one with done = true ends the generation phase.
C17_FieldDefaults ==
    LET ls == BodyLines(Delivered)
    IN  ( /\ ~split /\ ~spanned
          /\ \A i \in 1..Len(ls) :
               ParseOllama(ls[i]).ok /\ ParseOllama(ls[i]).error = <<>> )
        => /\ Len(decoded) = Len(ls)
           /\ \A i \in 1..Len(ls) :
                /\ i <= Len(decoded)
                /\ decoded[i].response = ParseOllama(ls[i]).response
                /\ decoded[i].done = ParseOllama(ls[i]).done
                /\ ParseOllama(ls[i]).done => pc # "stream"

\* C18: a chunk that carries two or more complete lines yields one frame per
\* line, in order: with every chunk made of whole lines, the accumulated text
\* is that of the lines delivered, up to and including the first done.
C18_SeveralFramesPerChunk ==
    LET ls == BodyLines(Delivered)
    IN  (~split /\ \A i \in 1..Len(ls) : ParseChunk(ls[i]).ok)
        => full_response = FeedAll(LoopStart, ls).full_response

\* C19: when agent mode is off the response text is never scanned, no approval
\* read is performed and no subprocess is launched, whatever the text and
\* whatever the approval flag.
C19_NoExecutionOutsideAgentMode ==
    ~agent =>
        /\ pc \in {"stream", "generated", "complete", "failed"}
        /\ log = <<>>
        /\ response = <<>> /\ lines = <<>> /\ commands = <<>>

\* C19 witness: a run without agent mode, with auto-approve, completed on a
\* response text that holds a shell block.
W19_ChatModeWithShellBlock ==
    /\ ~agent /\ auto_approve
    /\ pc = "complete"
    /\ ShellBlocks(full_response) # <<>>

\* Every fenced block of a text, in document order, whatever its tag.
AllBlocks(text) ==
    LET ls == Lines(text)
        RECURSIVE Walk(_, _, _)
        Walk(i, inside, cur) ==
            IF i > Len(ls) THEN (IF inside THEN <<cur>> ELSE <<>>)
            ELSE IF IsFence(ls[i])
            THEN (IF inside THEN <<cur>> \o Walk(i + 1, FALSE, <<>>)
                  ELSE Walk(i + 1, TRUE, <<>>))
            ELSE Walk(i + 1, inside, IF inside THEN cur \o ls[i] \o S("\n") ELSE cur)
    IN  Walk(1, FALSE, <<>>)

\* a can be had from b by leaving elements out.
RECURSIVE IsSubsequence(_, _)
IsSubsequence(a, b) ==
    IF a = <<>> THEN TRUE
    ELSE IF b = <<>> THEN FALSE
    ELSE IF Head(a) = Head(b) THEN IsSubsequence(Tail(a), Tail(b))
    ELSE IsSubsequence(a, Tail(b))

CountEvents(evs) == Cardinality({ i \in 1..Len(log) : log[i].ev \in evs })

ExitEvents == {"exit_0", "exit_1", "signal", "spawn_error"}

\* C20: blocks are offered in document order, at most one subprocess is
\* active at a time, and the approval step of a block starts only after the
\* block before it was skipped or ran to its end.  The order is that of all
\* the blocks offered in the run, looked at when the loop is over.
C20_StrictlySequential ==
    /\ ExecLoopOver => IsSubsequence(Offered, AllBlocks(response))
    /\ LET active == CountEvents({"launch"}) - CountEvents(ExitEvents)
       IN  /\ active \in {0, 1}
           /\ active = 1 <=> pc = "exec"
    /\ \A i \in 2..Len(log) :
         log[i].ev = "found" =>
            log[i - 1].ev \in {"skipped", "exit_0", "exit_1", "signal"}

\* C20 witness: two different blocks were launched one after the other and
\* both ran to their end.
W20_TwoRunInOrder ==
    /\ pc = "returned"
    /\ \E i, j \in 1..Len(log) :
         /\ i < j
         /\ log[i].ev = "launch" /\ log[j].ev = "launch"
         /\ log[i].arg # log[j].arg

\* The blocks displayed so far, in order, each with the decisions taken for
\* it: the arguments of the launch and skipped events up to the next block
\* displayed.
BlockDecisions ==
    LET RECURSIVE F(_, _)
        F(i, acc) ==
            IF i > Len(log) THEN acc
            ELSE IF log[i].ev = "found"
            THEN F(i + 1, Append(acc, [block |-> log[i].arg, decided |-> <<>>]))
            ELSE IF log[i].ev \in {"launch", "skipped"} /\ acc # <<>>
            THEN F(i + 1, [acc EXCEPT ![Len(acc)].decided = Append(@, log[i].arg)])
            ELSE F(i + 1, acc)
    IN  F(1, <<>>)

\* C21: in a run that is not aborted every extracted block gets exactly one
\* decision, approved or skipped; a subprocess is launched at most once per
\* block, once for an approved block and never for a skipped one.
C21_OneDecisionPerBlock ==
    /\ log # <<>> => log[1].ev = "found"
    /\ LET ds == BlockDecisions
       IN  \A k \in 1..Len(ds) :
               /\ Len(ds[k].decided) <= 1
               /\ (pc = "returned" \/ k < Len(ds)) => Len(ds[k].decided) = 1
               /\ \A m \in 1..Len(ds[k].decided) : ds[k].decided[m] = ds[k].block
    /\ \A j \in 1..Len(log) :
         /\ log[j].ev = "skipped" => (j = Len(log) \/ log[j + 1].ev = "found")
         /\ log[j].ev \in ExitEvents =>
               j > 1 /\ log[j - 1] = Event("launch", log[j].arg)
         /\ log[j].ev = "launch" =>
               (j = Len(log) /\ pc = "exec") \/ (j < Len(log) /\ log[j + 1].ev \in ExitEvents)
    /\ pc = "returned" => Offered = ExtractedBlocks

\* C21 witness: a run that returned with one block skipped and one executed.
W21_OneSkippedOneRun ==
    /\ pc = "returned"
    /\ Len(Offered) = 2
    /\ Cardinality({ j \in 1..Len(log) : log[j].ev = "skipped" }) = 1
    /\ Cardinality({ j \in 1..Len(log) : log[j].ev = "launch" }) = 1

\* The agent phase has begun.
InAgentPhase == pc \in {"call", "scan", "read", "exec", "returned"} \/ log # <<>>

\* C22: nothing is extracted, displayed, offered or executed before the
\* generation phase has ended; the extractor is handed the response text
\* after the last fragment was appended, and the text does not change from
\* then on.
C22_PhaseOrdering ==
    /\ [](pc \in {"stream", "generated"} =>
            /\ log = <<>>
            /\ response = <<>> /\ lines = <<>> /\ commands = <<>>)
    /\ [](InAgentPhase =>
            /\ ended \in {"done", "eof"}
            /\ response = full_response
            /\ full_response = ConcatResponses(decoded))
    /\ [][pc # "stream" => full_response' = full_response]_vars

\* C22 witness: a text made of two fragments was scanned once the loop was
\* over, and a block of it was executed.
W22_ExecutedAfterGeneration ==
    /\ pc = "complete"
    /\ Len(decoded) = 2
    /\ decoded[1].response # <<>> /\ decoded[2].response # <<>>
    /\ HasEvent("exit_0")

\* C23: with the interactive policy the content of a block and the prompt
\* are written before the approval read for that block, and the content
\* shown is the content executed when the user approves.
C23_DisplayBeforeRead ==
    ~auto_approve =>
        /\ pc = "read" =>
              /\ Len(log) >= 2
              /\ log[Len(log) - 1] = Event("found", code_block)
              /\ log[Len(log)] = Event("prompt", code_block)
        /\ \A i \in 1..Len(log) :
             /\ log[i].ev \in {"read", "read_error"} =>
                   /\ i >= 3
                   /\ log[i - 1].ev = "prompt"
                   /\ log[i - 2] = Event("found", log[i - 1].arg)
             /\ log[i].ev = "launch" =>
                   /\ i >= 4
                   /\ log[i - 1].ev = "read"
                   /\ log[i - 3] = Event("found", log[i].arg)

\* C23 witness: a block with a line in it was shown, approved and executed.
W23_ShownThenExecuted ==
    /\ ~auto_approve
    /\ \E i \in 1..Len(log) :
         /\ log[i] = Event("found", <<"x", "\n">>)
         /\ i + 4 <= Len(log)
         /\ log[i + 3] = Event("launch", <<"x", "\n">>)
         /\ log[i + 4].ev = "exit_0"

\* C24: once the generation phase has ended with success, a command that
\* exits non-zero does not change the outcome: short of a failed read or
\* launch the run never fails, the loop goes on after the failed command,
\* and the step after the loop's return is the report of success.
C24_SuccessDespiteFailedCommands ==
    /\ []( ( /\ ended \in {"done", "eof"}
            /\ ~HasEvent("read_error") /\ ~HasEvent("spawn_error") )
          => /\ pc # "failed"
             /\ (log # <<>> /\ IsFailedExit(log[Len(log)].ev)) => LoopGoesOn )
    /\ [][pc = "returned" => pc' = "complete"]_vars

\* C24 witness: the run completed although its command exited non-zero.
W24_CompleteAfterFailure ==
    /\ pc = "complete"
    /\ ended = "done"
    /\ HasEvent("exit_1")

\* C25: two calls of extract_and_execute_commands on the same text with the
\* same policy and the same inputs, differing in allow_unsafe_exec only,
\* display the same blocks, perform the same reads, take the same decisions
\* and launch the same subprocesses in the same order, and end the same way:
\* the second call waits for a read or a subprocess only where the first did.
C25_FlagOnlyWarns ==
    run = 2 =>
        /\ IsPrefix(log, log0)
        /\ pc \in {"returned", "failed"} => (log = log0 /\ pc = pc0)
        /\ pc = "read" =>
              Len(log) < Len(log0) /\ log0[Len(log) + 1].ev \in ReadEvents
        /\ pc = "exec" =>
              Len(log) < Len(log0) /\ log0[Len(log) + 1].ev \in OutcomeEvents
        /\ pc = "scan" => warned = (auto_approve /\ ~allow_unsafe_exec)

\* C25 witness: both calls are over, each displayed and launched the same two
\* blocks, and only the first call wrote the warning.
W25_SameRunOtherWarning ==
    /\ run = 2
    /\ pc = "returned"
    /\ log = log0
    /\ HasEvent("launch")
    /\ Len(Offered) = 2
    /\ warned0 /\ ~warned

\* A line that, after some whitespace, goes on with three backquotes.
FenceRef(line) ==
    \E k \in 0..Len(line) :
        /\ \A j \in 1..k : IsWhitespace(line[j])
        /\ Len(line) >= k + 3
        /\ line[k + 1] = BT /\ line[k + 2] = BT /\ line[k + 3] = BT

\* The fence lines among the first n lines.
RefFences(ls, n) == { i \in 1..n : FenceRef(ls[i]) }

\* The last fence line among the first n lines.
LastFence(ls, n) == CHOOSE i \in RefFences(ls, n) : \A j \in RefFences(ls, n) : j <= i

\* C26: in both scanner states a line is a fence exactly when, trimmed, it
\* begins with three backquotes.  After any number of lines the scanner is
\* inside a block exactly when it has met an odd number of such lines; a
\* fence met inside a block closes it, whatever follows its backquotes, and
\* the block is emitted or dropped by the tag of its opening fence alone; no
\* other line opens, closes or emits a block.
C26_FenceRecognition ==
    pc = "extracted" =>
        LET ls == Lines(response)
        IN  \A n \in 1..Len(ls) :
              LET before == ScanAll(ScanInit, SubSeq(ls, 1, n - 1))
                  after == ScanAll(ScanInit, SubSeq(ls, 1, n))
                  inside == Cardinality(RefFences(ls, n - 1)) % 2 = 1
              IN  /\ before.in_code_block = inside
                  /\ after.in_code_block = (IF FenceRef(ls[n]) THEN ~inside ELSE inside)
                  /\ IF FenceRef(ls[n]) /\ inside
                     THEN /\ after.commands =
                                IF TagIsShell(TagOf(ls, LastFence(ls, n - 1)))
                                THEN Append(before.commands, before.code_block)
                                ELSE before.commands
                          /\ after.code_block = <<>>
                     ELSE after.commands = before.commands

\* C26 witness: an indented fence opened a shell block, and a fence with the
\* tag fish closed it: the block was emitted and no other block was opened.
W26_IndentedThenTaggedClose ==
    /\ pc = "extracted"
    /\ LET ls == Lines(response) IN
       /\ Len(ls) = 4
       /\ ls[1] = <<" ", " ">> \o FenceMark \o <<" ">> \o TagBash \o <<" ", "-", "x", " ">>
       /\ ls[2] = <<" ", "y", "\t">>
       /\ ls[3] = FenceMark \o <<"f", "i", "s", "h">>
       /\ ls[4] = <<" ", "y", "\t">>
    /\ commands = << <<" ", "y", "\t", "\n">> >>

\* The request validation of the call, as the build at hand computes it.
RequestOutcome == RequestValidate(prompt_len, model, overflow_checks)

\* C27: generate and generate_stream call the provider only when
\* ModelProfile.validate and CompletionRequest.validate both succeed; when
\* one of them fails, its error is what the method returns and the provider
\* is never called.
C27_ValidationGatesProvider ==
    /\ provider_calls <= 1
    /\ (pc = "rt_provider" \/ provider_calls > 0) =>
          /\ ModelValidate(model).kind = "Ok"
          /\ RequestOutcome.kind = "Ok"
    /\ (pc = "rt_done" /\ ModelValidate(model).kind # "Ok") =>
          /\ result = ModelValidate(model)
          /\ provider_calls = 0
    /\ (pc = "rt_done" /\ RequestOutcome.kind # "Ok") =>
          /\ result = RequestOutcome
          /\ provider_calls = 0

\* C27 witness: one call stopped by a context overflow of a valid profile,
\* with no call of the provider.
W27_OverflowStopsCall ==
    /\ pc = "rt_done"
    /\ method = "generate_stream"
    /\ ModelValidate(model).kind = "Ok"
    /\ result.kind = "ContextOverflow"
    /\ provider_calls = 0

\* name non-empty, context_window > 0, 0 < max_tokens <= context_window.
ValidProfile(m) ==
    /\ m.name # <<>>
    /\ m.context_window > 0
    /\ m.max_tokens > 0
    /\ m.max_tokens <= m.context_window

\* C28: for a valid profile CompletionRequest.validate returns
\* ContextOverflow exactly when floor(prompt length / 4) + max_tokens is
\* greater than context_window, with that sum and context_window reported,
\* and Ok otherwise.
C28_ContextOverflowCheck ==
    (ValidProfile(model) /\ pc \in {"rt_provider", "rt_done"}) =>
        LET sum == (prompt_len \div 4) + model.max_tokens
        IN  IF sum > model.context_window
            THEN /\ pc = "rt_done"
                 /\ provider_calls = 0
                 /\ result = Outcome("ContextOverflow", sum, model.context_window)
            ELSE /\ result.kind \notin {"ContextOverflow", "InvalidConfig", "panic"}
                 /\ pc = "rt_provider" \/ provider_calls = 1

\* C29: ModelProfile.validate returns Ok exactly when the name is non-empty,
\* context_window > 0, max_tokens > 0 and max_tokens <= context_window, and
\* InvalidConfig in every other case; it never changes the profile.
C29_ModelProfileValidity ==
    /\ [](/\ ModelValidate(model).kind = (IF ValidProfile(model) THEN "Ok" ELSE "InvalidConfig")
          /\ pc \in {"rt_request", "rt_provider"} => ValidProfile(model)
          /\ (pc = "rt_done" /\ ~ValidProfile(model)) =>
                (result.kind = "InvalidConfig" /\ provider_calls = 0)
          /\ result.kind = "InvalidConfig" => ~ValidProfile(model))
    /\ [][model' = model]_vars

\* C29 witness: a profile whose only fault is max_tokens above
\* context_window was refused.
W29_MaxTokensAboveWindow ==
    /\ pc = "rt_done"
    /\ model.name # <<>>
    /\ model.context_window > 0
    /\ model.max_tokens > model.context_window
    /\ result.kind = "InvalidConfig"

\* C30: when the stream ends and the last bytes received are a complete
\* frame with no line terminator after it, that frame is decoded all the
\* same and its response is part of the accumulated text.
C30_FinalUnterminatedLine ==
    LET ls == BodyLines(body)
        final == ParseChunk(ls[Len(ls)])
    IN  ( /\ pc # "stream" /\ ended \in {"eof", "done"}
          /\ pending = <<>>
          /\ body # <<>> /\ body[Len(body)] # Newline
          /\ \A i \in 1..Len(ls) :
               /\ ParseChunk(ls[i]).ok
               /\ i < Len(ls) => ~ParseChunk(ls[i]).done )
        => /\ decoded # <<>>
           /\ decoded[Len(decoded)].response = final.response
           /\ decoded[Len(decoded)].done = final.done
           /\ Len(full_response) >= Len(final.response)
           /\ SubSeq(full_response, Len(full_response) - Len(final.response) + 1,
                     Len(full_response)) = final.response

\* C31: when the stream ends with no frame decoded as done and no stream
\* error, the generation phase ends as it does on a done frame: the run does
\* not fail for it, with agent mode off it completes with nothing scanned,
\* and with agent mode on the text accumulated so far is what the scanner is
\* handed, and every shell block of that text has been offered to the
\* approval gate, in order, by the time the run completes.
C31_StreamEndWithoutCompletion ==
    ended = "eof" =>
        /\ \A i \in 1..Len(decoded) : ~decoded[i].done
        /\ pc # "stream"
        /\ pc = "failed" => (HasEvent("read_error") \/ HasEvent("spawn_error"))
        /\ ~agent => (pc \in {"generated", "complete"} /\ log = <<>>)
        /\ (agent /\ pc # "generated") => response = full_response
        /\ (agent /\ pc = "complete") => Offered = ShellBlocks(full_response)

\* C32: on every text and with every sequence of answers the loop of
\* main.rs displays and offers the blocks that agent.rs's extract_commands
\* returns for that text, with the same content and in the same order: what
\* it has offered so far is always the first of them, and all of them once
\* it has returned.
C32_ScannersAgree ==
    impl = "main" =>
        /\ IsPrefix(Offered, ExtractCommands(response))
        /\ pc = "returned" => Offered = ExtractCommands(response)

\* ------------------------------------------------------------- SpecTerm

\* Most frame lines in a body, and most lines in a text, of the runs checked
\* for termination.
MaxTermFrames == 2
MaxTermLines == 3

\* The frames of those bodies: a block opened with a line in it, and a bare
\* fence with and without done.
TermFramePool ==
    { Frame(<<Tok("response", FenceMark \o TagSh \o <<"\n", "x", "\n">>), Tok("done", JFalse)>>),
      Frame(<<Tok("response", FenceMark \o <<"\n">>), Tok("done", JFalse)>>),
      Frame(<<Tok("response", FenceMark \o <<"\n">>), Tok("done", JTrue)>>) }

\* A run of main on a drawn body, or a call of agent.rs's
\* extract_and_execute_commands on a drawn text.
InitTerm ==
    /\ \/ /\ impl = "main"
          /\ pc = "stream"
          /\ agent \in BOOLEAN
          /\ allow_unsafe_exec = FALSE
          /\ body \in BodiesOf(TermFramePool, MaxTermFrames)
          /\ response = <<>>
       \/ /\ impl = "agent"
          /\ pc = "call"
          /\ agent = TRUE
          /\ allow_unsafe_exec \in BOOLEAN
          /\ body = <<>>
          /\ response \in JoinedTexts(ExecLinePool, MaxTermLines)
    /\ auto_approve \in BOOLEAN
    /\ pending = body
    /\ lines = <<>>
    /\ in_code_block = FALSE
    /\ language = <<>>
    /\ code_block = <<>>
    /\ commands = <<>>
    /\ warned = FALSE
    /\ log = <<>>
    /\ full_response = <<>>
    /\ printed = <<>>
    /\ spanned = FALSE
    /\ split = FALSE
    /\ decoded = <<>>
    /\ errorSeen = FALSE
    /\ ended = "no"
    /\ run = 1
    /\ log0 = <<>>
    /\ pc0 = "call"
    /\ warned0 = FALSE
    /\ RtIdle

\* main goes on after its own extract_and_execute_commands has returned Ok.
MainComplete == impl = "main" /\ Complete

NextTerm ==
    \/ Chunk \/ StreamError \/ StreamEnd \/ AfterLoop
    \/ Call \/ MainLine \/ AgentBlock \/ LoopEnd \/ Read \/ Exec
    \/ MainComplete

\* Every step but the entry of the function.
AfterCall ==
    \/ Chunk \/ StreamError \/ StreamEnd \/ AfterLoop
    \/ MainLine \/ AgentBlock \/ LoopEnd \/ Read \/ Exec
    \/ MainComplete

\* Weak fairness of Call, with the condition under which it can be taken
\* written out: Call has no guard but pc = "call".
CallFair == []<>(pc # "call") \/ []<><<Call>>_vars

\* The stream yields its next item or its end, every read_line returns,
\* every subprocess ends, and the program takes its own steps.
SpecTerm == InitTerm /\ [][NextTerm]_vars /\ WF_vars(AfterCall) /\ CallFair

\* main has returned, or the function called alone has.
Terminated ==
    \/ pc \in {"complete", "failed"}
    \/ impl = "agent" /\ pc = "returned"

\* C33: with a finite stream, reads that return and subprocesses that exit,
\* every run comes to its end and takes no step after it; and at an end that
\* is not a fatal error every block extracted has been displayed and has
\* either been skipped or been launched and run to its exit.
C33_Termination ==
    /\ <>Terminated
    /\ [][~Terminated]_vars
    /\ []( (Terminated /\ pc # "failed") =>
             /\ Offered = ExtractedBlocks
             /\ LET ds == BlockDecisions
                IN  \A k \in 1..Len(ds) : Len(ds[k].decided) = 1
             /\ \A j \in 1..Len(log) :
                  log[j].ev = "launch" =>
                     (j < Len(log) /\ log[j + 1].ev \in {"exit_0", "exit_1", "signal"}) )

\* C33 witness: a run of main that read one answer, ran the block to its
\* exit and completed after the stream had ended without a done frame.
W33_CompleteAfterExecution ==
    /\ pc = "complete"
    /\ ended = "eof"
    /\ HasEvent("read")
    /\ HasEvent("exit_0")

====
